---------------------------- MODULE Spec2Model ----------------------------
(***************************************************************************)
(* ChronoRift battle simulation: the BattleEngine of                       *)
(* app/utils/battle_engine.py and the battle endpoints of                  *)
(* app/routes/combat.py.                                                   *)
(*                                                                         *)
(* Numbers.  Python floats are modelled by exact rationals kept as integer *)
(* numerators over fixed denominators: a type effectiveness e is kept as   *)
(* 2*e, STAB and the critical multiplier as 2*m, the damage roll as        *)
(* twentieths (17..20 for 0.85..1.0), a stat modifier as a fraction        *)
(* [num, den], and a random.random() draw as hundredths (0..99).           *)
(*                                                                         *)
(* Strings.  A Python str is a sequence of tokens: an effect name is one   *)
(* token, ":" is a token and a decimal digit is a token, so that           *)
(* f"{effect}:{duration}" and str.split(':') are computed, not assumed.    *)
(***************************************************************************)
EXTENDS Integers, Sequences, FiniteSets, TLC

VARIABLES
    combatants,   \* engine: the CombatantState list of one battle
    battle,       \* routes: the Battle row
    echoes,       \* routes: the Echo rows, by id
    response,     \* routes: the last request and its HTTP response
    rewards_issued, \* routes: how many responses have carried battle rewards
    dmg,          \* damage calculator: the inputs and result of a call
    call          \* the other pure functions: the inputs and result of a call

vars == <<combatants, battle, echoes, response, rewards_issued, dmg, call>>
routeVars == <<battle, echoes, response, rewards_issued>>

---------------------------------------------------------------------------
(* Bounds of the model *)

\* durations drawn for a direct apply_status_effect call are 1..MaxDuration
MaxDuration == 1
\* no more than this many status effects are active in one battle
MaxEffects == 2
\* the spd modifier is not halved more than this many times
MaxHalvings == 1
\* end requests that return rewards are counted up to this number
MaxRewards == 2
\* the combatant lists drawn for is_battle_finished have up to this length
MaxCombatants == 4
\* the combatant lists drawn for calculate_turn_order have up to this length
MaxOrder == 3
\* the loser lists drawn for calculate_battle_rewards have up to this length
MaxLosers == 3
\* the move lists and defender lists drawn for ai_choose_move
MaxMoves == 2
MaxDefenders == 2

---------------------------------------------------------------------------
(* Small helpers *)

Max(a, b) == IF a >= b THEN a ELSE b
Min(a, b) == IF a <= b THEN a ELSE b

\* Python int(): truncation toward zero of the rational n/d, d > 0
TruncDiv(n, d) == IF n >= 0 THEN n \div d ELSE -((-n) \div d)

Range(s) == {s[i] : i \in 1..Len(s)}

---------------------------------------------------------------------------
(* Python strings as token sequences *)

Digits == <<"0", "1", "2", "3", "4", "5", "6", "7", "8", "9">>

RECURSIVE IntToStr(_)
\* str(n) for n >= 0, as f"{duration}" formats it
IntToStr(n) ==
    IF n < 10 THEN <<Digits[n + 1]>>
    ELSE IntToStr(n \div 10) \o <<Digits[(n % 10) + 1]>>

DigitValue(t) == CHOOSE k \in 0..9 : Digits[k + 1] = t

RECURSIVE StrToInt(_)
\* int(s) for a string of decimal digits
StrToInt(s) ==
    IF Len(s) = 1 THEN DigitValue(s[1])
    ELSE 10 * StrToInt(SubSeq(s, 1, Len(s) - 1)) + DigitValue(s[Len(s)])

\* f"{effect}:{duration}"
FormatEffect(effect, duration) == effect \o <<":">> \o IntToStr(duration)

\* effect_str.split(':') unpacked into (effect_name, duration_str)
SplitEffect(s) ==
    LET k == CHOOSE i \in 1..Len(s) : s[i] = ":"
    IN  [effect_name |-> SubSeq(s, 1, k - 1),
         duration_str |-> SubSeq(s, k + 1, Len(s))]

\* the str of an effect name
Str(name) == <<name>>

---------------------------------------------------------------------------
(* Enums and tables of battle_engine.py *)

Elements == {"fire", "water", "wind", "earth", "light", "dark", "neutral"}

\* mutant: a row lists only the entries that differ from 1.0
EffectivenessRowSparse(half, double) ==
    [d \in half \cup double |-> IF d \in half THEN 1 ELSE 4]

\* one row of TYPE_EFFECTIVENESS, each multiplier doubled (0.5 -> 1,
\* 1.0 -> 2, 2.0 -> 4): the row has an entry for each of the seven elements,
\* 0.5 for those of half, 2.0 for those of double and 1.0 for the others
EffectivenessRow(half, double) ==
    [d \in Elements |-> CASE d \in half -> 1
                          [] d \in double -> 4
                          [] OTHER -> 2]

\* TYPE_EFFECTIVENESS (attacker -> defender)
TYPE_EFFECTIVENESS ==
    [a \in Elements |->
        CASE a = "fire"  -> EffectivenessRow({"fire", "water"}, {"wind", "earth"})
          [] a = "water" -> EffectivenessRow({"water", "wind"}, {"fire", "earth"})
          [] a = "wind"  -> EffectivenessRow({"fire", "wind", "earth"}, {"water"})
          [] a = "earth" -> EffectivenessRow({"fire", "water", "earth"}, {"wind"})
          [] a = "light" -> EffectivenessRow({"light"}, {"dark"})
          [] a = "dark"  -> EffectivenessRow({"dark"}, {"light"})
          [] a = "neutral" -> EffectivenessRow({}, {})]

\* whether the table has an entry for the pair
HasEntry(a, d) ==
    a \in DOMAIN TYPE_EFFECTIVENESS /\ d \in DOMAIN TYPE_EFFECTIVENESS[a]

\* TYPE_EFFECTIVENESS.get(a, {}).get(d, 1.0), doubled
Effectiveness2(a, d) == IF HasEntry(a, d) THEN TYPE_EFFECTIVENESS[a][d] ELSE 2

\* MOVE_TYPE_SCALING
MOVE_TYPE_SCALING(move_type) ==
    CASE move_type = "physical" -> "atk"
      [] move_type = "special" -> "sp_atk"
      [] OTHER -> "none"

\* CRITICAL_HIT_RATE = 0.05, in hundredths
CRITICAL_HIT_RATE == 5
\* CRITICAL_HIT_MULTIPLIER = 1.5, doubled
CRITICAL_HIT_MULTIPLIER == 3

\* outcomes of random.random(), in hundredths of [0, 1)
Draws == {0, 99}
\* outcomes of random.uniform(0.85, 1.0), in twentieths
Rolls == {17, 20}

StatNames == {"atk", "def", "sp_atk", "sp_def", "spd"}

\* a stat modifier is the fraction num/den; the identity is 1.0
Frac(n, d) == [num |-> n, den |-> d]
IdentityModifiers == [s \in StatNames |-> Frac(100, 100)]

---------------------------------------------------------------------------
(* BattleEngine.calculate_damage *)

\* the status-move short circuit
StatusMoveResult(move) ==
    [base_damage |-> 0, type_effectiveness |-> 2, critical_hit |-> FALSE,
     final_damage |-> 0, move_accuracy |-> move.accuracy, hit |-> TRUE]

\* mutant: the minimum of 1 damage is forgotten
MinimumDamageDropped(final) == final

\* max(1, final_damage): the minimum of 1 damage
MinimumDamage(final) == Max(1, final)

\* mutant: a miss keeps the damage of the hit
MissDamageKept(final) == final

\* final damage of a miss
MissDamage(final) == 0

\* mutant: the same-type bonus is given to every move
StabAlways(move, attacker) == 3

\* stab = 1.5 if move.get('element') == attacker.element else 1.0, doubled
Stab(move, attacker) == IF move.element = attacker.element THEN 3 ELSE 2

\* attacker, defender: Echo records; move: a move dict; mods_atk, mods_def:
\* the stat_modifiers of the two combatants; uCrit, roll, uHit: the three
\* random draws in the order the code makes them
calculate_damage(attacker, defender, move, mods_atk, mods_def, uCrit, roll, uHit) ==
    IF move.type = "status" THEN StatusMoveResult(move)
    ELSE
    LET stat_type == MOVE_TYPE_SCALING(move.type)
        def_type  == IF stat_type = "sp_atk" THEN "sp_def" ELSE "def"
        atk_stat  == TruncDiv(attacker[stat_type] * mods_atk[stat_type].num,
                              mods_atk[stat_type].den)
        def_stat  == TruncDiv(defender[def_type] * mods_def[def_type].num,
                              mods_def[def_type].den)
        \* level_factor = (2*level/5 + 2)/250 = (level + 5)/625
        \* base_damage = level_factor * (atk_stat / max(1, def_stat)) * power + 2
        base_den  == 625 * Max(1, def_stat)
        base_num  == (attacker.level + 5) * atk_stat * move.power + 2 * base_den
        type_eff  == Effectiveness2(attacker.element, defender.element)
        stab      == Stab(move, attacker)
        is_crit   == uCrit < CRITICAL_HIT_RATE
        crit_mult == IF is_crit THEN CRITICAL_HIT_MULTIPLIER ELSE 2
        product   == TruncDiv(base_num * type_eff * stab * crit_mult * roll,
                              base_den * 2 * 2 * 2 * 20)
        final     == MinimumDamage(product)
        hit       == uHit < move.accuracy
    IN  [base_damage |-> TruncDiv(base_num, base_den),
         type_effectiveness |-> type_eff,
         critical_hit |-> is_crit,
         final_damage |-> IF hit THEN final ELSE MissDamage(final),
         move_accuracy |-> move.accuracy,
         hit |-> hit]

---------------------------------------------------------------------------
(* Echo and move data (read-only in the engine) *)

MkEcho(name, level, element, hp, atk, def, sp_atk, sp_def, spd) ==
    [name |-> name, level |-> level, element |-> element, base_hp |-> hp,
     atk |-> atk, def |-> def, sp_atk |-> sp_atk, sp_def |-> sp_def,
     spd |-> spd]

\* move['effect'] is "" when the move has none; move['element'] is "none"
\* when the dict has no such key
MkMove(name, type, power, accuracy, element, effect) ==
    [name |-> name, type |-> type, power |-> power, accuracy |-> accuracy,
     element |-> element, effect |-> effect]

\* CombatantState(echo_id, echo, current_hp) as the dataclass constructs it
NewCombatant(echo, hp) ==
    [echo |-> echo, current_hp |-> hp, status_effects |-> <<>>,
     stat_modifiers |-> IdentityModifiers, is_defeated |-> FALSE]

\* duration: int = 3, the default of apply_status_effect
DefaultDuration == 3

Combatants == 1..Len(combatants)

RECURSIVE TotalEffects(_)
\* the number of status effects active in the battle, for the bound
TotalEffects(cs) ==
    IF cs = <<>> THEN 0
    ELSE Len(Head(cs).status_effects) + TotalEffects(Tail(cs))

NoCall == [op |-> "none"]
NoBattle == [status |-> "none"]

---------------------------------------------------------------------------
(* BattleEngine.calculate_turn_order.  The result names the combatants by  *)
(* their position in the argument list.                                    *)

\* mutant: the jitter spans more than a factor of two
JittersWide == {60, 100, 130}

\* outcomes of random.uniform(0.95, 1.05), in hundredths
Jitters == {95, 100, 105}

\* get_speed_priority: spd * stat_modifiers['spd'] * randomness
get_speed_priority(combatant, randomness) ==
    Frac(combatant.echo.spd * combatant.stat_modifiers["spd"].num * randomness,
         combatant.stat_modifiers["spd"].den * 100)

\* mutant: reverse=True is missing, the slowest acts first
StaysAheadAscending(placed, new) == placed.num * new.den <= new.num * placed.den

\* sorted(..., reverse=True) is stable: a combatant already placed stays
\* ahead of a later one unless its key is strictly lower
StaysAhead(placed, new) == placed.num * new.den >= new.num * placed.den

RECURSIVE SortedByKey(_, _)
\* sorted() over the positions 1..n, n given; keys[i] is the key of position i
SortedByKey(keys, n) ==
    IF n = 0 THEN <<>>
    ELSE
    LET before == SortedByKey(keys, n - 1)
        ahead  == Cardinality({i \in 1..Len(before) :
                                  StaysAhead(keys[before[i]], keys[n])})
    IN  SubSeq(before, 1, ahead) \o <<n>> \o SubSeq(before, ahead + 1, Len(before))

\* randomness[i] is the draw made for combatants[i]
calculate_turn_order(cs, randomness) ==
    SortedByKey([i \in 1..Len(cs) |-> get_speed_priority(cs[i], randomness[i])],
                Len(cs))

CalculateTurnOrder(randomness) ==
    /\ call' = [op |-> "calculate_turn_order", randomness |-> randomness,
                result |-> calculate_turn_order(combatants, randomness)]
    /\ UNCHANGED <<combatants, routeVars, dmg>>

---------------------------------------------------------------------------
(* BattleEngine.apply_status_effect *)

\* `effect in target.status_effects`: list membership of the bare name
AlreadyActive(target, effect) == Str(effect) \in Range(target.status_effects)

\* the combatant after the call, and the value returned
apply_status_effect(target, effect, duration) ==
    IF AlreadyActive(target, effect)
    THEN [target |-> target, applied |-> FALSE]
    ELSE [target |-> [target EXCEPT !.status_effects =
                          Append(@, FormatEffect(Str(effect), duration))],
          applied |-> TRUE]

ApplyStatusEffect(t, effect, duration) ==
    /\ TotalEffects(combatants) < MaxEffects
    /\ combatants' = [combatants EXCEPT ![t] =
                         apply_status_effect(@, effect, duration).target]
    /\ UNCHANGED <<routeVars, dmg, call>>

---------------------------------------------------------------------------
(* BattleEngine.update_status_effects *)

\* mutant: the tick adds the eighth instead of taking it
TickDamageHeals(base_hp) == -(base_hp \div 8)

\* int(combatant.echo.base_stats.hp * 0.125)
TickDamage(base_hp) == base_hp \div 8

\* mutant: the subtraction is not clamped at 0
ClampHPDropped(hp) == hp

\* max(0, current_hp - damage)
ClampHP(hp) == Max(0, hp)

\* mutant: an off-by-one keeps an effect whose duration reached zero
KeepEffectOneLonger(duration) == duration >= 0

\* `if duration > 0`: the effect is kept
KeepEffect(duration) == duration > 0

Halve(f) == Frac(f.num, 2 * f.den)

\* one pass of the loop body over effect_str; acc is the combatant being
\* mutated together with the active_effects built so far
TickOne(acc, effect_str) ==
    LET parts    == SplitEffect(effect_str)
        name     == parts.effect_name
        duration == StrToInt(parts.duration_str) - 1
        c        == acc.c
        hurt     == IF name = Str("burn") \/ name = Str("poison")
                    THEN [c EXCEPT !.current_hp =
                              ClampHP(@ - TickDamage(c.echo.base_hp))]
                    ELSE IF name = Str("paralysis")
                    THEN [c EXCEPT !.stat_modifiers["spd"] = Halve(@)]
                    ELSE c
    IN  [c |-> hurt,
         active |-> IF KeepEffect(duration)
                    THEN Append(acc.active, FormatEffect(name, duration))
                    ELSE acc.active]

RECURSIVE TickLoop(_, _)
TickLoop(acc, rest) ==
    IF rest = <<>> THEN acc
    ELSE TickLoop(TickOne(acc, Head(rest)), Tail(rest))

update_status_effects(combatant) ==
    LET done == TickLoop([c |-> combatant, active |-> <<>>],
                         combatant.status_effects)
    IN  [done.c EXCEPT !.status_effects = done.active]

RECURSIVE Log2(_)
Log2(n) == IF n <= 1 THEN 0 ELSE 1 + Log2(n \div 2)
\* the number of times the spd modifier has been halved, for the bound
Halvings(c) == Log2(c.stat_modifiers["spd"].den \div 100)

UpdateStatusEffects(t) ==
    LET after == update_status_effects(combatants[t])
    IN  /\ Halvings(after) <= MaxHalvings
        /\ combatants' = [combatants EXCEPT ![t] = after]
        /\ UNCHANGED <<routeVars, dmg, call>>

---------------------------------------------------------------------------
(* BattleEngine.modify_stat *)

\* mutant: the stage argument is used as it comes
ClampStageDropped(stages) == stages

\* stages = max(-6, min(6, stages))
ClampStage(stages) == Max(-6, Min(6, stages))

\* the stage_multipliers dict, each multiplier over 100
stage_multipliers ==
    [s \in -6..6 |->
        CASE s = -6 -> Frac(25, 100)
          [] s = -5 -> Frac(29, 100)
          [] s = -4 -> Frac(33, 100)
          [] s = -3 -> Frac(43, 100)
          [] s = -2 -> Frac(50, 100)
          [] s = -1 -> Frac(67, 100)
          [] s = 0  -> Frac(100, 100)
          [] s = 1  -> Frac(150, 100)
          [] s = 2  -> Frac(200, 100)
          [] s = 3  -> Frac(250, 100)
          [] s = 4  -> Frac(300, 100)
          [] s = 5  -> Frac(350, 100)
          [] s = 6  -> Frac(400, 100)]

\* the combatant after the call; a stage that is not a key of the dict raises
\* KeyError before anything is stored
modify_stat(combatant, stat, stages) ==
    LET clamped == ClampStage(stages)
    IN  IF clamped \in DOMAIN stage_multipliers
        THEN [combatant |-> [combatant EXCEPT !.stat_modifiers[stat] =
                                 stage_multipliers[clamped]],
              raised |-> FALSE]
        ELSE [combatant |-> combatant, raised |-> TRUE]

ModifyStat(t, stat, stages) ==
    LET done == modify_stat(combatants[t], stat, stages)
    IN  /\ combatants' = [combatants EXCEPT ![t] = done.combatant]
        /\ call' = [op |-> "modify_stat", raised |-> done.raised]
        /\ UNCHANGED <<routeVars, dmg>>

---------------------------------------------------------------------------
(* BattleEngine.execute_move *)

\* `if defender.current_hp == 0: defender.is_defeated = True`
DefeatCheck(c) == IF c.current_hp = 0 THEN [c EXCEPT !.is_defeated = TRUE] ELSE c

\* the defender after the move, given the DamageResult; the attacker is
\* read by calculate_damage only
execute_move(defender, move, result) ==
    IF ~result.hit THEN [defender |-> defender, damage_dealt |-> 0]
    ELSE
    LET damaged  == [defender EXCEPT !.current_hp = ClampHP(@ - result.final_damage)]
        checked  == DefeatCheck(damaged)
        effected == IF move.effect # ""
                    THEN apply_status_effect(checked, move.effect, DefaultDuration).target
                    ELSE checked
    IN  [defender |-> effected, damage_dealt |-> result.final_damage]

ExecuteMove(a, d, move, uCrit, roll, uHit) ==
    LET result == calculate_damage(combatants[a].echo, combatants[d].echo, move,
                                   combatants[a].stat_modifiers,
                                   combatants[d].stat_modifiers,
                                   uCrit, roll, uHit)
        after  == [combatants EXCEPT ![d] = execute_move(@, move, result).defender]
    IN  /\ TotalEffects(after) <= MaxEffects
        /\ combatants' = after
        /\ UNCHANGED <<routeVars, dmg, call>>

\* the wording of the not-very-effective branch: `type_effectiveness < 0.5`
\* on the doubled multiplier
NotVeryEffective(type_eff) == type_eff < 1

\* the log message, as the sequence of wordings appended to it; the names
\* interpolated into the wordings are left out
log_message(defender, move, result) ==
    IF ~result.hit THEN <<"used", "But it missed!">>
    ELSE
    LET damaged  == [defender EXCEPT !.current_hp = ClampHP(@ - result.final_damage)]
        checked  == DefeatCheck(damaged)
        critical == IF result.critical_hit THEN <<"Critical hit!">> ELSE <<>>
        defeated == IF damaged.current_hp = 0 THEN <<"has been defeated!">> ELSE <<>>
        wording  == IF result.type_effectiveness > 3 THEN <<"It's super effective!">>
                    ELSE IF result.type_effectiveness > 2 THEN <<"It's effective.">>
                    ELSE IF NotVeryEffective(result.type_effectiveness)
                         THEN <<"It's not very effective...">>
                    ELSE <<>>
        status   == IF move.effect # ""
                       /\ apply_status_effect(checked, move.effect, DefaultDuration).applied
                    THEN <<"is now">>
                    ELSE <<>>
    IN  <<"used">> \o critical \o defeated \o wording \o status

\* execute_move with the tuple it returns kept by the caller
ExecuteMoveReturning(a, d, move, uCrit, roll, uHit) ==
    LET result == calculate_damage(combatants[a].echo, combatants[d].echo, move,
                                   combatants[a].stat_modifiers,
                                   combatants[d].stat_modifiers,
                                   uCrit, roll, uHit)
        done   == execute_move(combatants[d], move, result)
        after  == [combatants EXCEPT ![d] = done.defender]
    IN  /\ TotalEffects(after) <= MaxEffects
        /\ combatants' = after
        /\ call' = [op |-> "execute_move", defender |-> d, move |-> move,
                    damage_dealt |-> done.damage_dealt,
                    damage_result |-> result,
                    message |-> log_message(combatants[d], move, result)]
        /\ UNCHANGED <<routeVars, dmg>>

---------------------------------------------------------------------------
(* BattleEngine.ai_choose_move.  Moves and targets are named by their      *)
(* position in attacker.echo.moves and in defenders (0 for None), since    *)
(* the function returns the objects themselves.                            *)

\* dict.get(key, default)
MoveGet(move, key, default) == IF key \in DOMAIN move THEN move[key] ELSE default

\* a < b and a <= b on fractions with positive denominators
FracLess(a, b) == a.num * b.den < b.num * a.den
FracLessEq(a, b) == a.num * b.den <= b.num * a.den

\* mutant: defeated defenders are not filtered out
AliveTargetsUnfiltered(defenders) == [i \in 1..Len(defenders) |-> i]

\* [d for d in defenders if not d.is_defeated], as positions in defenders
AliveTargets(defenders) ==
    SelectSeq([i \in 1..Len(defenders) |-> i],
              LAMBDA i : ~defenders[i].is_defeated)

\* score = (base_power * type_eff * accuracy) - (target_hp_ratio * 20), with
\* type_eff doubled and accuracy in hundredths: a fraction over 200 * max_hp
ai_score(attacker, move, target) ==
    LET type_eff   == Effectiveness2(attacker.echo.element, target.echo.element)
        base_power == MoveGet(move, "power", 20)
        accuracy   == MoveGet(move, "accuracy", 100)
        max_hp     == Max(1, target.echo.base_hp)
    IN  Frac(base_power * type_eff * accuracy * max_hp
                 - target.current_hp * 20 * 200,
             200 * max_hp)

\* mutant: a pair that only equals the best score replaces it
BetterOrEqualScore(score, best_score) == FracLessEq(best_score, score)

\* `if score > best_score`
BetterScore(score, best_score) == FracLess(best_score, score)

\* the (move, target) pairs in the order of the two nested loops
ScoredPairs(moves, alive_targets) ==
    [k \in 1..(Len(moves) * Len(alive_targets)) |->
        [move |-> ((k - 1) \div Len(alive_targets)) + 1,
         target |-> alive_targets[((k - 1) % Len(alive_targets)) + 1]]]

RECURSIVE ScanPairs(_, _, _, _, _)
\* the loops: best is (best_move, best_target, best_score) so far
ScanPairs(best, pairs, attacker, moves, defenders) ==
    IF pairs = <<>> THEN best
    ELSE
    LET pair  == Head(pairs)
        score == ai_score(attacker, moves[pair.move], defenders[pair.target])
        next  == IF BetterScore(score, best.score)
                 THEN [move |-> pair.move, target |-> pair.target, score |-> score]
                 ELSE best
    IN  ScanPairs(next, Tail(pairs), attacker, moves, defenders)

\* moves stands for attacker.echo.moves; with no target alive the failsafe
\* evaluates alive_targets[0] on an empty list and raises IndexError
ai_choose_move(attacker, moves, defenders) ==
    LET alive_targets == AliveTargets(defenders)
    IN  IF alive_targets = <<>>
        THEN [raised |-> TRUE, move |-> 0, target |-> 0]
        ELSE
        LET best == ScanPairs([move |-> 0, target |-> 0, score |-> Frac(-999, 1)],
                              ScoredPairs(moves, alive_targets),
                              attacker, moves, defenders)
        IN  [raised |-> FALSE,
             \* best_move or attacker.echo.moves[0]
             move |-> IF best.move = 0 THEN 1 ELSE best.move,
             \* best_target or alive_targets[0]
             target |-> IF best.target = 0 THEN alive_targets[1] ELSE best.target]

---------------------------------------------------------------------------
(* BattleEngine.is_battle_finished *)

\* all(c.is_defeated for c in cs[lo:hi]) with 0-based slice bounds
AllDefeated(cs, lo, hi) == \A i \in (lo + 1)..hi : cs[i].is_defeated

\* mutant: side one is the first combatant alone
SideSplitAfterFirst(n) == 1

\* len(combatants)//2, the index where side two starts
SideSplit(n) == n \div 2

is_battle_finished(cs) ==
    LET team_1_defeated == AllDefeated(cs, 0, SideSplit(Len(cs)))
        team_2_defeated == AllDefeated(cs, SideSplit(Len(cs)), Len(cs))
    IN  team_1_defeated \/ team_2_defeated

---------------------------------------------------------------------------
(* calculate_battle_rewards.  exp_mult is a multiple of 0.1 and is kept in *)
(* tenths; bonus_multiplier is kept in tenths as well.                     *)

base_exp == 100
base_currency == 50

\* max(0.5, 1.0 + level_diff * 0.1), in tenths
exp_mult(level_diff) == Max(5, 10 + level_diff)

\* the products n * exp_mult, among those the model draws, whose value in
\* double precision lies just below the exact integer product:
\* 170 * (1.0 + 31 * 0.1) evaluates to 696.9999999999999
FloatJustBelow == {<<170, 41>>}

\* int(n * exp_mult): truncation of the double-precision product
TruncatedProduct(n, mult) ==
    IF <<n, mult>> \in FloatJustBelow
    THEN TruncDiv(n * mult, 10) - 1
    ELSE TruncDiv(n * mult, 10)

RECURSIVE RewardLoop(_, _, _)
\* the loop over losers; totals is (total_exp, total_currency) so far
RewardLoop(totals, winner, losers) ==
    IF losers = <<>> THEN totals
    ELSE
    LET loser      == Head(losers)
        level_diff == loser.echo.level - winner.echo.level
        mult       == exp_mult(level_diff)
        exp_gained == TruncatedProduct(base_exp + loser.echo.level * 2, mult)
        currency_gained == TruncatedProduct(base_currency + loser.echo.level, mult)
    IN  RewardLoop([total_exp |-> totals.total_exp + exp_gained,
                    total_currency |-> totals.total_currency + currency_gained],
                   winner, Tail(losers))

calculate_battle_rewards(winner, losers) ==
    LET totals == RewardLoop([total_exp |-> 0, total_currency |-> 0], winner, losers)
    IN  [experience |-> totals.total_exp,
         currency |-> totals.total_currency,
         \* 1.0 + (len(losers) - 1) * 0.1, in tenths
         bonus_multiplier |-> 10 + (Len(losers) - 1)]

\* combatants[1] is the winner, the others are the losers
CalculateBattleRewards ==
    /\ call' = [op |-> "calculate_battle_rewards",
                result |-> calculate_battle_rewards(Head(combatants), Tail(combatants))]
    /\ UNCHANGED <<combatants, routeVars, dmg>>

---------------------------------------------------------------------------
(* Spec: any sequence of engine calls on a battle of two combatants *)

Roster ==
    <<MkEcho("Pyra", 5, "fire", 8, 10, 10, 10, 10, 12),
      MkEcho("Zeph", 5, "wind", 8, 10, 10, 10, 10, 10)>>

\* moves a caller passes to execute_move
MoveSet ==
    {MkMove("Tackle", "physical", 40, 100, "none", ""),
     MkMove("Venom", "special", 40, 85, "fire", "poison")}

\* effect names a caller passes to apply_status_effect
EffectNames == {"burn", "sleep"}

RoutesIdle ==
    /\ battle = NoBattle
    /\ echoes = <<>>
    /\ response = NoCall
    /\ rewards_issued = 0

Init ==
    /\ combatants = [i \in 1..Len(Roster) |-> NewCombatant(Roster[i], Roster[i].base_hp)]
    /\ RoutesIdle
    /\ dmg = NoCall
    /\ call = NoCall


Next ==
    \/ \E t \in Combatants, e \in EffectNames, n \in 1..MaxDuration :
          ApplyStatusEffect(t, e, n)
    \/ \E t \in Combatants : UpdateStatusEffects(t)
    \/ \E a \in Combatants : \E d \in Combatants \ {a}, m \in MoveSet,
          uCrit \in Draws, roll \in Rolls, uHit \in Draws :
          ExecuteMove(a, d, m, uCrit, roll, uHit)

Spec == Init /\ [][Next]_vars

---------------------------------------------------------------------------
(* SpecSides: the battle [A(hp=1), B(hp=100)] against [C(hp=100)] *)

SidesRoster ==
    <<MkEcho("A", 50, "neutral", 100, 150, 50, 150, 50, 30),
      MkEcho("B", 50, "neutral", 100, 150, 50, 150, 50, 20),
      MkEcho("C", 50, "neutral", 100, 150, 50, 150, 50, 10)>>

SidesStartHP == <<1, 100, 100>>

SidesMoveSet ==
    {MkMove("Strike", "physical", 120, 100, "none", ""),
     MkMove("Stun", "special", 120, 85, "none", "paralysis")}

InitSides ==
    /\ combatants = [i \in 1..Len(SidesRoster) |->
                        NewCombatant(SidesRoster[i], SidesStartHP[i])]
    /\ RoutesIdle
    /\ dmg = NoCall
    /\ call = NoCall

NextSides ==
    \/ \E t \in Combatants : UpdateStatusEffects(t)
    \/ \E a \in Combatants : \E d \in Combatants \ {a}, m \in SidesMoveSet,
          uCrit \in Draws, roll \in Rolls, uHit \in Draws :
          ExecuteMove(a, d, m, uCrit, roll, uHit)

SpecSides == InitSides /\ [][NextSides]_vars

---------------------------------------------------------------------------
(* SpecStats: modify_stat, apply_status_effect and update_status_effects   *)
(* on one combatant                                                        *)

StatsRoster == <<MkEcho("Volt", 5, "light", 8, 10, 10, 10, 10, 12)>>

\* the stats and stage arguments a caller passes to modify_stat
StatsModified == {"atk", "def", "spd"}
StageInputs == {-7, -6, -1, 0, 1, 6, 7}

InitStats ==
    /\ combatants = [i \in 1..Len(StatsRoster) |->
                        NewCombatant(StatsRoster[i], StatsRoster[i].base_hp)]
    /\ RoutesIdle
    /\ dmg = NoCall
    /\ call = NoCall

NextStats ==
    \/ \E t \in Combatants, stat \in StatsModified, stages \in StageInputs :
          ModifyStat(t, stat, stages)
    \/ \E t \in Combatants, n \in 1..MaxDuration :
          ApplyStatusEffect(t, "paralysis", n)
    \/ \E t \in Combatants : UpdateStatusEffects(t)

SpecStats == InitStats /\ [][NextStats]_vars

---------------------------------------------------------------------------
(* SpecFinished: is_battle_finished over drawn combatant lists *)

\* the states a combatant of a running battle can be in: unhurt, hurt,
\* brought to 0 HP by a status tick (is_defeated not set), defeated by a move
CombatantStatesOf(echo) ==
    {NewCombatant(echo, echo.base_hp),
     NewCombatant(echo, 1),
     NewCombatant(echo, 0),
     [NewCombatant(echo, 0) EXCEPT !.is_defeated = TRUE]}

FinishedEcho == MkEcho("Echo", 5, "neutral", 8, 10, 10, 10, 10, 10)

InitFinished ==
    /\ combatants \in UNION {[1..n -> CombatantStatesOf(FinishedEcho)] :
                                n \in 2..MaxCombatants}
    /\ RoutesIdle
    /\ dmg = NoCall
    /\ call = NoCall

IsBattleFinished ==
    /\ call' = [op |-> "is_battle_finished",
                result |-> is_battle_finished(combatants)]
    /\ UNCHANGED <<combatants, routeVars, dmg>>

NextFinished == IsBattleFinished

SpecFinished == InitFinished /\ [][NextFinished]_vars

---------------------------------------------------------------------------
(* SpecAI: ai_choose_move over drawn attackers, move lists and defenders.  *)
(* On these inputs the float scores of the code compare as the exact       *)
(* fractions of the model do.                                              *)

\* moves as generate_moves builds them; a status move has no 'power' key
AIMovePool ==
    {[name |-> "Tackle", type |-> "physical", power |-> 40, accuracy |-> 100],
     [name |-> "Blast", type |-> "special", power |-> 80, accuracy |-> 50],
     [name |-> "Howl", type |-> "status", effect |-> "atk_boost", accuracy |-> 100]}

AIAttackerElements == {"fire", "neutral"}
AIDefenderElements == {"water", "wind"}

AIDefenderStates ==
    UNION {CombatantStatesOf(MkEcho("Target", 5, element, 8, 10, 10, 10, 10, 10)) :
              element \in AIDefenderElements}

InitAI ==
    /\ \E element \in AIAttackerElements,
          moves \in UNION {[1..n -> AIMovePool] : n \in 1..MaxMoves},
          defenders \in UNION {[1..n -> AIDefenderStates] : n \in 1..MaxDefenders} :
          call = [op |-> "ai_choose_move",
                  attacker |-> NewCombatant(
                      MkEcho("Hunter", 5, element, 8, 10, 10, 10, 10, 10), 8),
                  moves |-> moves,
                  defenders |-> defenders,
                  called |-> FALSE,
                  result |-> [raised |-> FALSE, move |-> 0, target |-> 0]]
    /\ combatants = <<>>
    /\ RoutesIdle
    /\ dmg = NoCall

AiChooseMove ==
    /\ call' = [call EXCEPT
                  !.called = TRUE,
                  !.result = ai_choose_move(call.attacker, call.moves, call.defenders)]
    /\ UNCHANGED <<combatants, routeVars, dmg>>

NextAI == AiChooseMove

SpecAI == InitAI /\ [][NextAI]_vars

---------------------------------------------------------------------------
(* SpecOrder: calculate_turn_order over drawn combatant lists.  On these   *)
(* inputs the float keys of the code compare as the exact fractions do.    *)

OrderSpeeds == {4, 8}
\* spd modifiers left by modify_stat(c, 'spd', -2) and by construction
OrderModifiers == {Frac(50, 100), Frac(100, 100)}

OrderCombatants ==
    {[NewCombatant(MkEcho("Echo", 5, "neutral", 8, 10, 10, 10, 10, spd), 8)
         EXCEPT !.stat_modifiers["spd"] = modifier] :
        spd \in OrderSpeeds, modifier \in OrderModifiers}

InitOrder ==
    /\ combatants \in UNION {[1..n -> OrderCombatants] : n \in 1..MaxOrder}
    /\ RoutesIdle
    /\ dmg = NoCall
    /\ call = NoCall

NextOrder ==
    \E randomness \in [1..Len(combatants) -> Jitters] :
        CalculateTurnOrder(randomness)

SpecOrder == InitOrder /\ [][NextOrder]_vars

---------------------------------------------------------------------------
(* SpecTable: the type-effectiveness lookup over every pair of elements,   *)
(* at the two places of the engine that make it                            *)

LookupSites == {"calculate_damage", "ai_choose_move"}

InitTable ==
    /\ \E a \in Elements, d \in Elements :
          call = [op |-> "effectiveness", attacker |-> a, defender |-> d,
                  site |-> "none", found |-> FALSE, value |-> 0]
    /\ combatants = <<>>
    /\ RoutesIdle
    /\ dmg = NoCall

LookUp(site) ==
    /\ call' = [call EXCEPT
                  !.site = site,
                  !.found = HasEntry(call.attacker, call.defender),
                  !.value = Effectiveness2(call.attacker, call.defender)]
    /\ UNCHANGED <<combatants, routeVars, dmg>>

NextTable == \E site \in LookupSites : LookUp(site)

SpecTable == InitTable /\ [][NextTable]_vars

---------------------------------------------------------------------------
(* SpecRewards: calculate_battle_rewards over a drawn winner and losers *)

WinnerLevels == {4, 20}
LoserLevels == {5, 20, 21, 35}

RewardEcho(name, level) == MkEcho(name, level, "neutral", 8, 10, 10, 10, 10, 10)

Winners == {NewCombatant(RewardEcho("Winner", level), 8) : level \in WinnerLevels}
Losers ==
    {[NewCombatant(RewardEcho("Loser", level), 0) EXCEPT !.is_defeated = TRUE] :
        level \in LoserLevels}

InitRewards ==
    /\ \E winner \in Winners,
          losers \in UNION {[1..n -> Losers] : n \in 0..MaxLosers} :
          combatants = <<winner>> \o losers
    /\ RoutesIdle
    /\ dmg = NoCall
    /\ call = NoCall

NextRewards == CalculateBattleRewards

SpecRewards == InitRewards /\ [][NextRewards]_vars

---------------------------------------------------------------------------
(* SpecParalysis: the engine calls of Spec with paralysis among the effects *)
(* a caller applies; modify_stat is never called, so every stat modifier   *)
(* starts at, and by its stage stays at, 1.0                               *)

ParalysisEffectNames == {"paralysis", "sleep"}

NextParalysis ==
    \/ \E t \in Combatants, e \in ParalysisEffectNames, n \in 1..MaxDuration :
          ApplyStatusEffect(t, e, n)
    \/ \E t \in Combatants : UpdateStatusEffects(t)
    \/ \E a \in Combatants : \E d \in Combatants \ {a}, m \in MoveSet,
          uCrit \in Draws, roll \in Rolls, uHit \in Draws :
          ExecuteMove(a, d, m, uCrit, roll, uHit)

SpecParalysis == Init /\ [][NextParalysis]_vars

---------------------------------------------------------------------------
(* SpecMoves: execute_move with the tuple it returns kept, a status move  *)
(* among the moves and the second combatant of either element, and the     *)
(* ticks of the effects the moves apply                                    *)

MovesElements == {"wind", "neutral"}

\* the status move Spore of MOVE_POOL; a status move has no power
StatusMoves == {MkMove("Spore", "status", 0, 85, "none", "poison")}

\* random.uniform(0.85, 1.0), in twentieths
MovesRolls == {20}

InitMoves ==
    /\ \E e \in MovesElements :
          combatants =
              <<NewCombatant(Roster[1], Roster[1].base_hp),
                NewCombatant(MkEcho("Zeph", 5, e, 8, 10, 10, 10, 10, 10), 8)>>
    /\ RoutesIdle
    /\ dmg = NoCall
    /\ call = NoCall

NextMoves ==
    \/ \E t \in Combatants : UpdateStatusEffects(t)
    \/ \E a \in Combatants : \E d \in Combatants \ {a},
          m \in MoveSet \cup StatusMoves,
          uCrit \in Draws, roll \in MovesRolls, uHit \in Draws :
          ExecuteMoveReturning(a, d, m, uCrit, roll, uHit)

SpecMoves == InitMoves /\ [][NextMoves]_vars

---------------------------------------------------------------------------
(* SpecCalls: any sequence of the six calls a battle makes on its          *)
(* combatants: execute_move, update_status_effects, apply_status_effect,   *)
(* modify_stat, ai_choose_move and calculate_turn_order                    *)

\* attacker.echo.moves of every combatant
CallsMoves == <<MkMove("Venom", "special", 40, 85, "fire", "poison")>>
CallsEffectNames == {"sleep"}
CallsStages == {1}
CallsJitters == {95, 105}

\* the defenders of attacker a: the other combatants, in list order
OthersOf(a) == [i \in 1..(Len(combatants) - 1) |->
                   combatants[IF i < a THEN i ELSE i + 1]]

\* ai_choose_move for combatant a against the others
AiChooseMoveFor(a) ==
    /\ call' = [op |-> "ai_choose_move", attacker |-> a,
                result |-> ai_choose_move(combatants[a], CallsMoves, OthersOf(a))]
    /\ UNCHANGED <<combatants, routeVars, dmg>>

NextCalls ==
    \/ \E a \in Combatants : \E d \in Combatants \ {a},
          uCrit \in Draws, roll \in MovesRolls, uHit \in Draws :
          ExecuteMove(a, d, CallsMoves[1], uCrit, roll, uHit)
    \/ \E t \in Combatants : UpdateStatusEffects(t)
    \/ \E t \in Combatants, e \in CallsEffectNames, n \in 1..MaxDuration :
          ApplyStatusEffect(t, e, n)
    \/ \E t \in Combatants, stages \in CallsStages : ModifyStat(t, "atk", stages)
    \/ \E a \in Combatants : AiChooseMoveFor(a)
    \/ \E randomness \in [1..Len(combatants) -> CallsJitters] :
          CalculateTurnOrder(randomness)

SpecCalls == Init /\ [][NextCalls]_vars

---------------------------------------------------------------------------
(* SpecDamage: calculate_damage over drawn inputs.  The inputs are ones on *)
(* which the float arithmetic of the code and the exact arithmetic of the  *)
(* model give the same DamageResult.                                       *)

DamageLevels == {1, 50}
DamageAtkStats == {1, 90}
DamageDefStats == {1, 50}
DamageDefenderElements == {"water", "neutral", "wind"}
DamageModifiers == {Frac(25, 100), Frac(100, 100), Frac(400, 100)}
DamageMoves ==
    {MkMove("Move", type, power, accuracy, element, "") :
        type \in {"physical", "special", "status"}, power \in {0, 80},
        accuracy \in {0, 75, 100}, element \in {"none", "fire"}}

NoResult == [hit |-> FALSE, final_damage |-> -1]

InitDamage ==
    /\ \E level \in DamageLevels, atk \in DamageAtkStats, def \in DamageDefStats,
          element \in DamageDefenderElements, move \in DamageMoves,
          ma \in DamageModifiers, md \in DamageModifiers :
          dmg = [op |-> "calculate_damage",
                 attacker |-> MkEcho("Att", level, "fire", 50, atk, 30, atk, 30, 10),
                 defender |-> MkEcho("Def", 20, element, 50, 30, def, 30, def, 10),
                 move |-> move,
                 mods_atk |-> [s \in StatNames |-> ma],
                 mods_def |-> [s \in StatNames |-> md],
                 called |-> FALSE,
                 result |-> NoResult]
    /\ combatants = <<>>
    /\ RoutesIdle
    /\ call = NoCall

CalculateDamage(uCrit, roll, uHit) ==
    /\ dmg' = [dmg EXCEPT
                 !.called = TRUE,
                 !.result = calculate_damage(dmg.attacker, dmg.defender, dmg.move,
                                             dmg.mods_atk, dmg.mods_def,
                                             uCrit, roll, uHit)]
    /\ UNCHANGED <<combatants, routeVars, call>>

NextDamage ==
    \E uCrit \in Draws, roll \in Rolls, uHit \in Draws :
        CalculateDamage(uCrit, roll, uHit)

SpecDamage == InitDamage /\ [][NextDamage]_vars

---------------------------------------------------------------------------
(* SpecBand: calculate_damage for a level-50 attacker with atk 100 against *)
(* def 50 and a move of power 80, over every element of the defender and   *)
(* every damage roll in twentieths.  On these inputs the float arithmetic  *)
(* of the code and the exact arithmetic of the model agree.                *)

BandAttackerElements == {"neutral", "fire"}
BandMoves ==
    {MkMove("Move", type, 80, accuracy, element, "") :
        type \in {"physical", "special", "status"},
        accuracy \in {0, 75, 100}, element \in {"none", "neutral", "fire"}}
\* random.uniform(0.85, 1.0), in twentieths
BandRolls == 17..20

InitBand ==
    /\ \E a \in BandAttackerElements, d \in Elements, move \in BandMoves :
          dmg = [op |-> "calculate_damage",
                 attacker |-> MkEcho("Att", 50, a, 50, 100, 30, 100, 30, 10),
                 defender |-> MkEcho("Def", 20, d, 50, 30, 50, 30, 50, 10),
                 move |-> move,
                 mods_atk |-> IdentityModifiers,
                 mods_def |-> IdentityModifiers,
                 called |-> FALSE,
                 result |-> NoResult]
    /\ combatants = <<>>
    /\ RoutesIdle
    /\ call = NoCall

NextBand ==
    \E uCrit \in Draws, roll \in BandRolls, uHit \in Draws :
        CalculateDamage(uCrit, roll, uHit)

SpecBand == InitBand /\ [][NextBand]_vars

---------------------------------------------------------------------------
(* app/routes/combat.py: the battle endpoints.  One Battle row (id 1) and  *)
(* two Echo rows (ids 1, 2) exist; the other ids of a request name nothing, *)
(* as does an id the request leaves out.                                  *)

BattleIds == {1, 2}
EchoIds == {1, 2, 3}
MoveIds == {1, 2}

\* Battle(status='active', current_round=1, is_finished=False) of start_battle
NewBattle ==
    [status |-> "active", current_round |-> 1, is_finished |-> FALSE,
     result |-> "none", finished_at |-> FALSE]

EchoRows ==
    [i \in {1, 2} |->
        [attack |-> 6, defense |-> 4, special_attack |-> 6, special_defense |-> 4,
         level |-> 10, speed |-> IF i = 1 THEN 20 ELSE 300,
         current_health |-> 6, max_health |-> 6,
         status_effects |-> {}, is_defending |-> FALSE]]

\* the EchoAbility row of id 1
MoveRows ==
    [i \in {1} |->
        [name |-> "Toxic Fang", damage_type |-> "physical", power |-> 100,
         accuracy |-> 85, effect_type |-> "poison", effect_chance |-> 50]]

ActionTypes == {"attack", "move", "defend", "item", "switch", "escape", "dance"}
EndResults == {"victory", "defeat"}

\* Battle.query.get / Echo.query.get / EchoAbility.query.get
BattleFound(battle_id) == battle_id = 1 /\ battle # NoBattle
EchoFound(echo_id) == echo_id \in DOMAIN echoes
MoveFound(move_id) == move_id \in DOMAIN MoveRows

\* calculate_damage(attacker, defender) of the routes; u1, u2 are the two
\* random.random() draws in hundredths
route_calculate_damage(attacker, defender, u1, u2) ==
    LET \* base_damage = max(0, attack - defense/2) * (1 + level/100), over 200
        base_num == Max(0, 2 * attacker.attack - defender.defense) * (100 + attacker.level)
        \* variance = 0.85 + random()*0.15, over 10000
        variance == 8500 + 15 * u1
        final    == TruncDiv(base_num * variance, 200 * 10000)
        crit     == IF u2 < 10 THEN TruncDiv(final * 3, 2) ELSE final
    IN  Max(1, crit)

\* calculate_move_damage(attacker, defender, move); u1 decides the miss,
\* u2 the variance
calculate_move_damage(attacker, defender, move, u1, u2) ==
    LET raw == IF move.damage_type = "special"
               THEN Max(0, 2 * attacker.special_attack - defender.special_defense)
               ELSE Max(0, 2 * attacker.attack - defender.defense)
        \* base * (power/100) * (1 + level/100), over 2 * 100 * 100
        base_num == raw * move.power * (100 + attacker.level)
        variance == 8500 + 15 * u2
        final    == TruncDiv(base_num * variance, 20000 * 10000)
    IN  IF u1 > move.accuracy THEN 0 ELSE Max(1, final)

\* apply_damage(target, damage): the row after the call
apply_damage(target, damage) ==
    [target EXCEPT !.current_health = Max(0, @ - damage)]

KnownStatusEffects == {"poison", "paralysis", "sleep", "burn", "freeze"}

\* apply_status_effect(target, effect_type, chance) of the routes
route_apply_status_effect(target, effect_type, chance, u) ==
    IF u < chance /\ effect_type \in KnownStatusEffects
    THEN [target EXCEPT !.status_effects = @ \cup {effect_type}]
    ELSE target

\* calculate_escape_chance(echo), over 10000
calculate_escape_chance(echo) == Min(9000, 2500 + 25 * echo.speed)

\* mutant: the status guard is missing
BattleNotActiveUnchecked(b) == FALSE

\* `if battle.status != 'active'`: the request is refused
BattleNotActive(b) == b.status # "active"

Respond(request, battle_id, code) ==
    [op |-> request, battle_id |-> battle_id, code |-> code]

\* a response that changes nothing (an early return, or the rollback of the
\* except branch before anything was written)
Refuse(request, battle_id, code) ==
    /\ response' = Respond(request, battle_id, code)
    /\ UNCHANGED <<battle, echoes, rewards_issued>>

\* the battle after a successful escape
Escaped(b) == [b EXCEPT !.status = "escaped", !.is_finished = TRUE]

\* POST /battles/<battle_id>/action
ExecuteAction(battle_id, action_type, actor_id, target_id, move_id, u1, u2, u3) ==
    /\ UNCHANGED <<dmg, combatants, call>>
    /\ IF ~BattleFound(battle_id) THEN Refuse("action", battle_id, 404)
       ELSE IF BattleNotActive(battle) THEN Refuse("action", battle_id, 400)
       ELSE IF ~EchoFound(actor_id) THEN Refuse("action", battle_id, 404)
       ELSE IF action_type # "escape" /\ ~EchoFound(target_id)
            THEN Refuse("action", battle_id, 400)
       ELSE
       CASE action_type = "attack" ->
              LET damage == route_calculate_damage(echoes[actor_id], echoes[target_id], u1, u2)
              IN  /\ echoes' = [echoes EXCEPT ![target_id] = apply_damage(@, damage)]
                  /\ response' = Respond("action", battle_id, 200)
                  /\ UNCHANGED <<battle, rewards_issued>>
         [] action_type = "move" ->
              IF ~MoveFound(move_id) THEN Refuse("action", battle_id, 404)
              ELSE
              LET move   == MoveRows[move_id]
                  damage == calculate_move_damage(echoes[actor_id], echoes[target_id],
                                                  move, u1, u2)
                  hurt   == apply_damage(echoes[target_id], damage)
                  after  == IF move.effect_type # ""
                            THEN route_apply_status_effect(hurt, move.effect_type,
                                                           move.effect_chance, u3)
                            ELSE hurt
              IN  /\ echoes' = [echoes EXCEPT ![target_id] = after]
                  /\ response' = Respond("action", battle_id, 200)
                  /\ UNCHANGED <<battle, rewards_issued>>
         [] action_type = "defend" ->
              /\ echoes' = [echoes EXCEPT ![actor_id].is_defending = TRUE]
              /\ response' = Respond("action", battle_id, 200)
              /\ UNCHANGED <<battle, rewards_issued>>
         [] action_type \in {"item", "switch"} ->
              Refuse("action", battle_id, 200)
         [] action_type = "escape" ->
              LET escaped == 100 * u1 < calculate_escape_chance(echoes[actor_id])
              IN  /\ battle' = IF escaped THEN Escaped(battle) ELSE battle
                  /\ response' = Respond("action", battle_id, 200)
                  /\ UNCHANGED <<echoes, rewards_issued>>
         \* any other action_type leaves result_data unbound: the handler
         \* raises, rolls back and answers 500
         [] OTHER -> Refuse("action", battle_id, 500)

\* mutant: a lost battle is put back into play
EndedReopensOnDefeat(b, result) ==
    IF result = "defeat"
    THEN [b EXCEPT !.status = "active", !.result = result, !.is_finished = FALSE]
    ELSE [b EXCEPT !.status = "finished", !.result = result,
                   !.is_finished = TRUE, !.finished_at = TRUE]

\* the battle row after end_battle
Ended(b, result) ==
    [b EXCEPT !.status = "finished", !.result = result,
              !.is_finished = TRUE, !.finished_at = TRUE]

\* POST /battles/<battle_id>/end
EndBattle(battle_id, result) ==
    /\ UNCHANGED <<dmg, combatants, call>>
    /\ IF ~BattleFound(battle_id) THEN Refuse("end", battle_id, 404)
       ELSE /\ rewards_issued < MaxRewards
            /\ battle' = Ended(battle, result)
            /\ rewards_issued' = rewards_issued + 1
            /\ response' = [op |-> "end", battle_id |-> battle_id, code |-> 200,
                            result |-> result,
                            experience_gained |-> IF result = "victory" THEN 100 ELSE 50,
                            currency_earned |-> IF result = "victory" THEN 500 ELSE 200]
            /\ UNCHANGED echoes

InitRoutes ==
    /\ battle = NewBattle
    /\ echoes = EchoRows
    /\ response = NoCall
    /\ rewards_issued = 0
    /\ combatants = <<>>
    /\ dmg = NoCall
    /\ call = NoCall

NextRoutes ==
    \/ \E b \in BattleIds, t \in ActionTypes, actor \in EchoIds,
          target \in EchoIds, m \in MoveIds,
          u1 \in Draws, u2 \in Draws, u3 \in Draws :
          ExecuteAction(b, t, actor, target, m, u1, u2, u3)
    \/ \E b \in BattleIds, r \in EndResults : EndBattle(b, r)

SpecRoutes == InitRoutes /\ [][NextRoutes]_vars

---------------------------------------------------------------------------
(* Properties *)

\* the (name, remaining duration) pairs of a status_effects list
ParsedEffects(effects) ==
    [i \in 1..Len(effects) |->
        [name |-> SplitEffect(effects[i]).effect_name,
         duration |-> StrToInt(SplitEffect(effects[i]).duration_str)]]

SideOne == {1, 2}
SideTwo == {3}
SideDefeated(side) == \A i \in side : combatants[i].is_defeated

\* C1: in the battle [A(hp=1), B(hp=100)] against [C(hp=100)], once A is
\* defeated while B and C stand, is_battle_finished reports the battle as not
\* finished; it reports finished only when a whole side is defeated.
C1_FinishedOnlyWhenWholeSideDefeated ==
    is_battle_finished(combatants) => SideDefeated(SideOne) \/ SideDefeated(SideTwo)

\* C2: a combatant whose current_hp is 0 has is_defeated set, after any
\* sequence of execute_move and update_status_effects calls.
C2_ZeroHPImpliesDefeated ==
    \A c \in Combatants :
        combatants[c].current_hp = 0 => combatants[c].is_defeated

\* C3: each status effect name occurs at most once in a combatant's
\* status_effects list.
C3_EffectNameAtMostOnce ==
    \A c \in Combatants :
        LET effects == ParsedEffects(combatants[c].status_effects)
        IN  \A i, j \in 1..Len(effects) :
                effects[i].name = effects[j].name => i = j

\* C4: a connecting attack with a non-status move deals final_damage >= 1; a
\* miss or a status move deals final_damage = 0.
C4_FinalDamageFloor ==
    dmg.called =>
        /\ (dmg.move.type # "status" /\ dmg.result.hit) => dmg.result.final_damage >= 1
        /\ (dmg.move.type = "status" \/ ~dmg.result.hit) => dmg.result.final_damage = 0

\* a connecting hit of power 0 whose computed damage truncates to 0
C4_Witness ==
    /\ dmg.called
    /\ dmg.move.type # "status"
    /\ dmg.move.power = 0
    /\ dmg.defender.element = "water"
    /\ dmg.result.hit
    /\ dmg.result.final_damage = 1

\* C5: a battle that is no longer active never becomes active again, and a
\* battle that is finished never becomes unfinished.
C5_FinishedIsTerminal ==
    [][/\ battle.status # "active" => battle'.status # "active"
       /\ battle.is_finished => battle'.is_finished]_vars

\* the battle was ended and an action request came afterwards
C5_Witness ==
    /\ battle.status = "finished"
    /\ battle.is_finished
    /\ response.op = "action"
    /\ response.battle_id = 1

\* C6: an action request on a battle that is not active is answered with an
\* error and changes neither the battle nor any Echo.
C6_ActionOnFinishedBattleRejected ==
    [][(/\ battle.status # "active"
        /\ response'.op = "action"
        /\ response'.battle_id = 1)
       => /\ response'.code = 400
          /\ battle' = battle
          /\ echoes' = echoes]_vars

\* an action request was refused on a battle left by escape, after damage
C6_Witness ==
    /\ battle.status = "escaped"
    /\ response.op = "action"
    /\ response.battle_id = 1
    /\ response.code = 400
    /\ \E e \in DOMAIN echoes : echoes[e].current_health < echoes[e].max_health

\* C7: execute_move with a defeated attacker or a defeated defender changes
\* no combatant.
C7_DefeatedCombatantNotExecuted ==
    [][\A a \in Combatants : \A d \in Combatants \ {a} :
          \A m \in MoveSet, uCrit \in Draws, roll \in Rolls, uHit \in Draws :
             (/\ ExecuteMove(a, d, m, uCrit, roll, uHit)
              /\ \/ combatants[a].is_defeated
                 \/ combatants[a].current_hp = 0
                 \/ combatants[d].is_defeated
                 \/ combatants[d].current_hp = 0)
             => combatants' = combatants]_vars

\* C8: rewards are returned at most once for a battle.
C8_RewardsAtMostOnce == rewards_issued <= 1

\* C9: every combatant's current_hp is within [0, max_hp], max_hp being the
\* hp of its Echo's base stats.
C9_HPWithinBounds ==
    \A c \in Combatants :
        /\ 0 <= combatants[c].current_hp
        /\ combatants[c].current_hp <= combatants[c].echo.base_hp

\* a hit larger than the HP left took a combatant to exactly 0
C9_Witness ==
    \E c \in Combatants :
        /\ combatants[c].current_hp = 0
        /\ combatants[c].is_defeated
        /\ combatants[c].status_effects # <<>>

\* the effects that a tick must leave: those whose duration does not reach
\* zero, in order, each with its duration lowered by one
AfterTick(effects) ==
    LET alive == SelectSeq(effects, LAMBDA e : e.duration - 1 # 0)
    IN  [i \in 1..Len(alive) |->
            [name |-> alive[i].name, duration |-> alive[i].duration - 1]]

\* C10: a tick lowers the duration of every effect by exactly one and removes
\* exactly the effects whose duration reaches zero.
C10_TickRemovesExactlyAtZero ==
    [][\A t \in Combatants :
          UpdateStatusEffects(t) =>
              ParsedEffects(combatants'[t].status_effects) =
                  AfterTick(ParsedEffects(combatants[t].status_effects))]_vars

\* an effect applied for 3 turns is still active, with 1 turn left, next to
\* an effect applied later
C10_Witness ==
    \E c \in Combatants :
        /\ Len(combatants[c].status_effects) = 2
        /\ ParsedEffects(combatants[c].status_effects)[1] =
               [name |-> Str("poison"), duration |-> 1]

\* the fraction is the table multiplier of some stage in [-6, +6]
IsStageMultiplier(f) ==
    \E s \in -6..6 :
        f.num * stage_multipliers[s].den = stage_multipliers[s].num * f.den

\* C11: each of the five stat modifiers of a combatant is the table
\* multiplier of some integer stage in [-6, +6], after any sequence of
\* modify_stat and update_status_effects calls.
C11_ModifiersAreStageMultipliers ==
    \A c \in Combatants : \A stat \in StatNames :
        IsStageMultiplier(combatants[c].stat_modifiers[stat])

\* C16: the stage table maps stage 0 to 1.0, +6 to 4.0 and -6 to 0.25, and
\* modify_stat stores for a stage above 6 the multiplier of 6 and for a stage
\* below -6 the multiplier of -6, without failing.
C16_StageClamped ==
    [][\A t \in Combatants, stat \in StatsModified, stages \in StageInputs :
          ModifyStat(t, stat, stages) =>
              /\ ~call'.raised
              /\ stages >= 6 => combatants'[t].stat_modifiers[stat] = Frac(400, 100)
              /\ stages <= -6 => combatants'[t].stat_modifiers[stat] = Frac(25, 100)
              /\ stages = 0 => combatants'[t].stat_modifiers[stat] = Frac(100, 100)]_vars

\* a stage above 6 was stored as 4.0 and a stage below -6 as 0.25, after a
\* paralysis had run out
C16_Witness ==
    /\ call.op = "modify_stat"
    /\ ~call.raised
    /\ combatants[1].stat_modifiers["spd"] = Frac(400, 100)
    /\ combatants[1].stat_modifiers["atk"] = Frac(25, 100)
    /\ combatants[1].status_effects = <<>>

\* C12: for a list of n >= 2 combatants, is_battle_finished returns true
\* exactly when all of the first n div 2 combatants are defeated or all of
\* the others are.
C12_FinishedIffHalfDefeated ==
    call.op = "is_battle_finished" =>
        LET n == Len(combatants)
        IN  call.result <=>
                \/ \A i \in 1..(n \div 2) : combatants[i].is_defeated
                \/ \A i \in (n \div 2 + 1)..n : combatants[i].is_defeated

\* four combatants, the last two defeated and the first two not: finished
C12_Witness ==
    /\ call.op = "is_battle_finished"
    /\ call.result
    /\ Len(combatants) = 4
    /\ ~combatants[1].is_defeated /\ ~combatants[2].is_defeated
    /\ combatants[3].is_defeated /\ combatants[4].is_defeated

\* the positions of the undefeated candidates of the call
AliveCandidates == {t \in 1..Len(call.defenders) : ~call.defenders[t].is_defeated}

\* power * effectiveness * accuracy/100 - (current_hp / max_hp) * 20 of move
\* m against candidate t, as a fraction
PairScore(m, t) ==
    LET move   == call.moves[m]
        target == call.defenders[t]
        eff2   == TYPE_EFFECTIVENESS[call.attacker.echo.element][target.echo.element]
    IN  Frac(MoveGet(move, "power", 20) * eff2 * move.accuracy * target.echo.base_hp
                 - 4000 * target.current_hp,
             200 * target.echo.base_hp)

\* C13: given at least one move and one undefeated candidate, ai_choose_move
\* returns a pair of maximal score over all moves and undefeated candidates,
\* and every pair enumerated before it (moves in list order, candidates in
\* list order for each move) has a strictly lower score.
C13_ChoosesFirstMaximalPair ==
    (call.op = "ai_choose_move" /\ call.called /\ AliveCandidates # {}) =>
        LET m0 == call.result.move
            t0 == call.result.target
        IN  /\ ~call.result.raised
            /\ m0 \in 1..Len(call.moves)
            /\ t0 \in AliveCandidates
            /\ \A m \in 1..Len(call.moves), t \in AliveCandidates :
                  /\ FracLessEq(PairScore(m, t), PairScore(m0, t0))
                  /\ (m < m0 \/ (m = m0 /\ t < t0)) =>
                         FracLess(PairScore(m, t), PairScore(m0, t0))

\* two moves of equal score against two equal candidates: the first move and
\* the first candidate were returned
C13_Witness ==
    /\ call.op = "ai_choose_move" /\ call.called
    /\ Len(call.moves) = 2 /\ Len(call.defenders) = 2
    /\ call.moves[1].name = "Blast" /\ call.moves[2].name = "Tackle"
    /\ call.defenders[1] = call.defenders[2]
    /\ ~call.defenders[1].is_defeated
    /\ call.result.move = 1 /\ call.result.target = 1

\* C14: whenever at least one candidate is not defeated, the target returned
\* by ai_choose_move is not defeated.
C14_TargetNotDefeated ==
    (call.op = "ai_choose_move" /\ call.called
        /\ \E t \in 1..Len(call.defenders) : ~call.defenders[t].is_defeated) =>
        /\ ~call.result.raised
        /\ call.result.target \in 1..Len(call.defenders)
        /\ ~call.defenders[call.result.target].is_defeated

\* the first candidate is defeated at 0 HP, the second is unhurt: the second
\* was returned although the first would score higher
C14_Witness ==
    /\ call.op = "ai_choose_move" /\ call.called
    /\ Len(call.defenders) = 2
    /\ call.defenders[1].is_defeated /\ call.defenders[1].current_hp = 0
    /\ call.defenders[2].current_hp = call.defenders[2].echo.base_hp
    /\ call.defenders[1].echo = call.defenders[2].echo
    /\ call.result.target = 2

\* jittered speed of position i under the draws of the call, and effective
\* speed, as fractions
JitteredSpeed(i) ==
    Frac(combatants[i].echo.spd * combatants[i].stat_modifiers["spd"].num
             * call.randomness[i],
         combatants[i].stat_modifiers["spd"].den * 100)
EffectiveSpeed(i) ==
    Frac(combatants[i].echo.spd * combatants[i].stat_modifiers["spd"].num,
         combatants[i].stat_modifiers["spd"].den)

\* C15: calculate_turn_order returns a permutation of its input ordered by
\* non-increasing jittered speed; with jitter factor 1.0 for every combatant
\* the order is non-increasing in effective speed.
C15_TurnOrderSortedPermutation ==
    call.op = "calculate_turn_order" =>
        LET order == call.result
            n     == Len(combatants)
        IN  /\ Len(order) = n
            /\ {order[i] : i \in 1..Len(order)} = 1..n
            /\ \A i, j \in 1..Len(order) :
                  i < j => FracLessEq(JitteredSpeed(order[j]), JitteredSpeed(order[i]))
            /\ (\A i \in 1..n : call.randomness[i] = 100) =>
                  \A i, j \in 1..Len(order) :
                     i < j => FracLessEq(EffectiveSpeed(order[j]),
                                         EffectiveSpeed(order[i]))

\* three combatants given slowest first come back fastest first, the jitter
\* having put the nominally slower of two ahead
C15_Witness ==
    /\ call.op = "calculate_turn_order"
    /\ Len(combatants) = 3
    /\ call.result = <<3, 2, 1>>
    /\ FracLess(EffectiveSpeed(1), EffectiveSpeed(2))
    /\ FracLessEq(EffectiveSpeed(2), EffectiveSpeed(3))
    /\ FracLessEq(EffectiveSpeed(3), EffectiveSpeed(2))
    /\ combatants[2].echo.spd # combatants[3].echo.spd
    /\ call.randomness[3] > call.randomness[2]

\* C17: for every pair of the seven elements the table has an entry, and
\* the value looked up is one of 0.5, 1.0, 2.0.
C17_EffectivenessTotal ==
    (call.op = "effectiveness" /\ call.site # "none") =>
        /\ call.found
        /\ call.value \in {1, 2, 4}

\* a pair whose multiplier is 1.0 was looked up and found in the table
C17_Witness ==
    /\ call.op = "effectiveness" /\ call.site = "calculate_damage"
    /\ call.attacker = "neutral" /\ call.defender = "dark"
    /\ call.found
    /\ call.value = 2

\* C18: for distinct elements a and d, effectiveness(a, d) = 2.0 implies
\* effectiveness(d, a) = 0.5.
C18_EffectivenessAntisymmetric ==
    (/\ call.op = "effectiveness" /\ call.site # "none"
     /\ call.attacker # call.defender
     /\ call.value = 4)
    => Effectiveness2(call.defender, call.attacker) = 1

RECURSIVE SumOverLosers(_, _, _)
\* ten times the sum over the losers of (base + per_level * L) * m, with
\* m = max(0.5, 1.0 + 0.1 * (L - W))
SumOverLosers(base, per_level, cs) ==
    IF Len(cs) <= 1 THEN 0
    ELSE LET W == cs[1].echo.level
             L == cs[Len(cs)].echo.level
             m == IF 10 + (L - W) < 5 THEN 5 ELSE 10 + (L - W)
         IN  (base + per_level * L) * m
                 + SumOverLosers(base, per_level, SubSeq(cs, 1, Len(cs) - 1))

\* C19: calculate_battle_rewards returns experience = sum of (100 + 2*L_i) *
\* m_i, currency = sum of (50 + L_i) * m_i with m_i = max(0.5, 1.0 + 0.1 *
\* (L_i - W)) and bonus_multiplier = 1.0 + 0.1 * (number of losers - 1); for
\* W = 20 and one loser of level 20 that is 140, 70 and 1.0; no combatant
\* state changes.
C19_RewardsAsStated ==
    [][CalculateBattleRewards =>
          /\ 10 * call'.result.experience = SumOverLosers(100, 2, combatants)
          /\ 10 * call'.result.currency = SumOverLosers(50, 1, combatants)
          /\ call'.result.bonus_multiplier = 10 + (Len(combatants) - 2)
          /\ (Len(combatants) = 2 /\ combatants[1].echo.level = 20
                 /\ combatants[2].echo.level = 20) =>
                call'.result = [experience |-> 140, currency |-> 70,
                                bonus_multiplier |-> 10]
          /\ combatants' = combatants]_vars

\* C20: attacker level 50 with atk 100 at modifier 1.0, defender def 50 at
\* modifier 1.0, physical move of power 80, effectiveness 1.0, no STAB, no
\* critical hit: every connecting hit has final_damage in [13, 16], and at
\* least 1, for every damage roll.
C20_DamageBand ==
    (/\ dmg.called
     /\ dmg.attacker.level = 50 /\ dmg.attacker.atk = 100
     /\ dmg.mods_atk["atk"] = Frac(100, 100)
     /\ dmg.defender.def = 50
     /\ dmg.mods_def["def"] = Frac(100, 100)
     /\ dmg.move.type = "physical" /\ dmg.move.power = 80
     /\ dmg.result.type_effectiveness = 2
     /\ dmg.move.element # dmg.attacker.element
     /\ ~dmg.result.critical_hit
     /\ dmg.result.hit)
    => /\ 13 <= dmg.result.final_damage
       /\ dmg.result.final_damage <= 16
       /\ dmg.result.final_damage >= 1

\* the lowest roll gave 13 in the claim's case
C20_Witness ==
    /\ dmg.called
    /\ dmg.attacker.level = 50 /\ dmg.attacker.atk = 100
    /\ dmg.defender.def = 50
    /\ dmg.attacker.element = "neutral" /\ dmg.defender.element = "neutral"
    /\ dmg.move.type = "physical" /\ dmg.move.power = 80
    /\ dmg.move.element = "none"
    /\ dmg.result.base_damage = 16
    /\ ~dmg.result.critical_hit
    /\ dmg.result.hit
    /\ dmg.result.final_damage = 13

\* whether an effect of that name is in the combatant's status_effects
HasEffect(c, name) ==
    \E i \in 1..Len(c.status_effects) :
        SplitEffect(c.status_effects[i]).effect_name = Str(name)

\* the fraction equals n/d
FracIs(f, n, d) == f.num * d = n * f.den

\* C21: the 0.5 factor of paralysis does not compound: while paralysis is
\* active the spd modifier is its stage-derived value (1.0 here) or half of
\* it, and once paralysis has expired it is the stage-derived value again.
C21_ParalysisDoesNotCompound ==
    \A c \in Combatants :
        LET spd == combatants[c].stat_modifiers["spd"]
        IN  IF HasEffect(combatants[c], "paralysis")
            THEN FracIs(spd, 1, 1) \/ FracIs(spd, 1, 2)
            ELSE FracIs(spd, 1, 1)

\* the stats that only modify_stat writes
StageOnlyStats == {"atk", "def"}

\* the stage whose table multiplier the fraction is
StageOf(f) == CHOOSE s \in -6..6 : stage_multipliers[s] = f

\* C22: modify_stat adds its argument to the stored stage: a call with delta
\* d on a stat at stage s (0 at first, clamp(d1) after a call with d1) leaves
\* the stat at the table multiplier of clamp(s + d, -6, 6), and leaves the
\* other four stat modifiers unchanged.
C22_ModifyStatAddsStages ==
    [][\A t \in Combatants, stat \in StageOnlyStats, d \in StageInputs :
          ModifyStat(t, stat, d) =>
              LET s       == StageOf(combatants[t].stat_modifiers[stat])
                  sum     == s + d
                  clamped == IF sum > 6 THEN 6 ELSE IF sum < -6 THEN -6 ELSE sum
              IN  /\ combatants'[t].stat_modifiers[stat] = stage_multipliers[clamped]
                  /\ \A other \in StatNames \ {stat} :
                        combatants'[t].stat_modifiers[other] =
                            combatants[t].stat_modifiers[other]]_vars


\* round(n / d) of Python for n >= 0, d > 0: to the nearest integer, a half
\* going to the even neighbour
RoundDiv(n, d) ==
    LET q == n \div d
        r == n % d
    IN  IF 2 * r < d THEN q
        ELSE IF 2 * r > d THEN q + 1
        ELSE IF q % 2 = 0 THEN q ELSE q + 1

\* numerator and denominator of base * effectiveness * stab * critical_mult
\* * roll for the call in dmg, with base = ((2*level/5 + 2)/250) *
\* (atk_stat / max(1, def_stat)) * power + 2
StatedProduct(result, roll) ==
    LET stat_type == MOVE_TYPE_SCALING(dmg.move.type)
        def_type  == IF stat_type = "sp_atk" THEN "sp_def" ELSE "def"
        atk_stat  == (dmg.attacker[stat_type] * dmg.mods_atk[stat_type].num)
                         \div dmg.mods_atk[stat_type].den
        def_stat  == (dmg.defender[def_type] * dmg.mods_def[def_type].num)
                         \div dmg.mods_def[def_type].den
        den       == 625 * Max(1, def_stat)
        num       == (dmg.attacker.level + 5) * atk_stat * dmg.move.power + 2 * den
        stab      == IF dmg.move.element = dmg.attacker.element THEN 3 ELSE 2
        crit      == IF result.critical_hit THEN 3 ELSE 2
    IN  Frac(num * result.type_effectiveness * stab * crit * roll,
             den * 2 * 2 * 2 * 20)

\* C23: for every connecting non-status attack, final_damage is
\* max(1, round(base * effectiveness * stab * critical_mult * roll)): the
\* product is rounded to the nearest integer, then floored at 1.
C23_FinalDamageRounded ==
    [][\A uCrit \in Draws, roll \in BandRolls, uHit \in Draws :
          (CalculateDamage(uCrit, roll, uHit)
              /\ dmg.move.type # "status" /\ dmg'.result.hit) =>
             LET p == StatedProduct(dmg'.result, roll)
             IN  dmg'.result.final_damage = Max(1, RoundDiv(p.num, p.den))]_vars


\* C24: when an attack misses, the DamageResult has hit = false and
\* final_damage = 0 while base_damage, type_effectiveness and critical_hit
\* hold the values the hit would have had; execute_move returns damage 0 and
\* leaves the defender's current_hp, is_defeated and status_effects as they
\* were (the effect of the move is not applied).
C24_MissLeavesDefenderAlone ==
    [][\A a \in Combatants : \A d \in Combatants \ {a},
          m \in MoveSet \cup StatusMoves,
          uCrit \in Draws, roll \in MovesRolls, uHit \in Draws :
          (/\ m.type # "status"
           /\ uHit >= m.accuracy
           /\ ExecuteMoveReturning(a, d, m, uCrit, roll, uHit)) =>
             LET would == calculate_damage(combatants[a].echo, combatants[d].echo, m,
                                           combatants[a].stat_modifiers,
                                           combatants[d].stat_modifiers,
                                           uCrit, roll, 0)
                 got   == call'.damage_result
             IN  /\ would.hit /\ would.final_damage >= 1
                 /\ ~got.hit
                 /\ got.final_damage = 0
                 /\ got.base_damage = would.base_damage
                 /\ got.type_effectiveness = would.type_effectiveness
                 /\ got.critical_hit = would.critical_hit
                 /\ call'.damage_dealt = 0
                 /\ combatants'[d].current_hp = combatants[d].current_hp
                 /\ combatants'[d].is_defeated = combatants[d].is_defeated
                 /\ combatants'[d].status_effects = combatants[d].status_effects]_vars

\* a move that carries an effect missed a defender that had lost HP: the
\* would-be critical hit is reported and no effect was applied
C24_Witness ==
    /\ call.op = "execute_move"
    /\ ~call.damage_result.hit
    /\ call.damage_result.critical_hit
    /\ call.damage_result.base_damage > 0
    /\ call.move.effect = "poison"
    /\ combatants[call.defender].current_hp < 8
    /\ combatants[call.defender].status_effects = <<>>


\* C25: for a status move calculate_damage returns final_damage 0,
\* base_damage 0, hit true, critical_hit false and type_effectiveness 1.0
\* whatever the accuracy, the elements and the draws, and execute_move with
\* such a move leaves the defender's current_hp and is_defeated as they were.
C25_StatusMoveShortCircuits ==
    [][\A a \in Combatants : \A d \in Combatants \ {a}, m \in StatusMoves,
          uCrit \in Draws, roll \in MovesRolls, uHit \in Draws :
          ExecuteMoveReturning(a, d, m, uCrit, roll, uHit) =>
             /\ call'.damage_result.final_damage = 0
             /\ call'.damage_result.base_damage = 0
             /\ call'.damage_result.hit
             /\ ~call'.damage_result.critical_hit
             /\ call'.damage_result.type_effectiveness = 2
             /\ combatants'[d].current_hp = combatants[d].current_hp
             /\ combatants'[d].is_defeated = combatants[d].is_defeated]_vars


\* C26: when every candidate target is defeated, ai_choose_move takes its
\* failsafe and returns the attacker's first move with the first target
\* instead of failing with an unhandled error.
C26_FailsafeReturnsFirstPair ==
    (call.called /\ AliveCandidates = {}) =>
        /\ ~call.result.raised
        /\ call.result.move = 1
        /\ call.result.target = 1


Says(wording) == wording \in Range(call.message)

\* C27: the message of a connecting hit carries the super-effective wording
\* exactly when type_effectiveness is 2.0, the not-very-effective wording
\* exactly when it is 0.5 and neither when it is 1.0; the message of a miss
\* carries the miss wording and no effectiveness, critical or defeat wording.
C27_MessageMatchesEffectiveness ==
    call.op = "execute_move" =>
        IF call.damage_result.hit
        THEN /\ Says("It's super effective!")
                   <=> call.damage_result.type_effectiveness = 4
             /\ Says("It's not very effective...")
                   <=> call.damage_result.type_effectiveness = 1
             /\ ~Says("But it missed!")
        ELSE /\ Says("But it missed!")
             /\ ~Says("It's super effective!")
             /\ ~Says("It's effective.")
             /\ ~Says("It's not very effective...")
             /\ ~Says("Critical hit!")
             /\ ~Says("has been defeated!")


\* 1 when the effect is active on the combatant, else 0
ActiveCount(c, name) == IF HasEffect(c, name) THEN 1 ELSE 0

\* C28: a tick on a combatant with burn (respectively poison) active lowers
\* current_hp by floor(12.5% of max HP), never below 0; with both active the
\* reduction is applied once for each; other effects never change current_hp.
C28_TickDamageOncePerEffect ==
    [][\A t \in Combatants :
          UpdateStatusEffects(t) =>
             LET c      == combatants[t]
                 eighth == c.echo.base_hp \div 8
                 times  == ActiveCount(c, "burn") + ActiveCount(c, "poison")
             IN  combatants'[t].current_hp = Max(0, c.current_hp - times * eighth)]_vars


\* C29: across any sequence of execute_move, update_status_effects,
\* apply_status_effect, modify_stat, ai_choose_move and calculate_turn_order
\* calls, no combatant's current_hp increases and no is_defeated flag that is
\* true becomes false.
C29_HPAndDefeatMonotonic ==
    [][\A c \in Combatants :
          /\ combatants'[c].current_hp <= combatants[c].current_hp
          /\ combatants[c].is_defeated => combatants'[c].is_defeated]_vars

\* after moves, ticks, an applied effect and a raised stat, one combatant is
\* defeated, the other has lost HP, and the selector has just been asked
C29_Witness ==
    /\ call.op = "ai_choose_move"
    /\ \E c \in Combatants : \E o \in Combatants \ {c} :
          /\ combatants[c].is_defeated /\ combatants[c].current_hp = 0
          /\ combatants[o].current_hp < combatants[o].echo.base_hp
          /\ combatants[o].current_hp > 0
          /\ combatants[o].stat_modifiers["atk"] # Frac(100, 100)
          /\ HasEffect(combatants[o], "sleep")


\* the place of input position i in the returned order
PlaceOf(i) == CHOOSE k \in 1..Len(call.result) : call.result[k] = i

\* 0.95 * sa > 1.05 * sb for the effective speeds of input positions a and b
ClearlyFaster(a, b) ==
    LET sa == EffectiveSpeed(a)
        sb == EffectiveSpeed(b)
    IN  95 * sa.num * sb.den > 105 * sb.num * sa.den

\* C30: the jitter of calculate_turn_order only reorders near-ties: when
\* 0.95 * sa > 1.05 * sb for the effective speeds of two combatants a and b,
\* a precedes b in the returned order for every jitter outcome.
C30_JitterReordersOnlyNearTies ==
    call.op = "calculate_turn_order" =>
        \A a, b \in 1..Len(combatants) :
            ClearlyFaster(a, b) => PlaceOf(a) < PlaceOf(b)

\* the clearly faster combatant came later in the list and drew the lowest
\* jitter while the slower drew the highest, and it still acts first
C30_Witness ==
    /\ call.op = "calculate_turn_order"
    /\ \E a, b \in 1..Len(combatants) :
          /\ b < a
          /\ ClearlyFaster(a, b)
          /\ call.randomness[a] = 95
          /\ call.randomness[b] = 105
          /\ PlaceOf(a) < PlaceOf(b)

=============================================================================
